---- MODULE Spec2Model ----
(***************************************************************************)
(* Model of android/gyp/prepare_resources.py: one invocation of main()     *)
(* computes the fingerprint inputs, and md5_check.CallAndWriteDepfileIfStale*)
(* runs _OnStaleMd5 when they changed.  The file system (resource          *)
(* directories, the other input files, the outputs, the persisted          *)
(* fingerprint and the depfile) is the state that survives an invocation.  *)
(***************************************************************************)
EXTENDS Integers, Sequences, FiniteSets, TLC

(***************************************************************************)
(* Bounds of the model.                                                    *)
(***************************************************************************)
\* Number of changes the environment makes to inputs during one behaviour.
MaxEdits == 1

(***************************************************************************)
(* Values.                                                                 *)
(***************************************************************************)
\* Python's None and '' are both falsy; options that are not given are None.
None == ""
\* A file that does not exist.
Absent == "absent"
NoFile == [kind |-> "absent"]

\* Resource directories; both have the basename "res", as in a GN build.
dirA == [parent |-> "a", base |-> "res"]
dirB == [parent |-> "b", base |-> "res"]
Dirs == {dirA, dirB}

\* Names of files relative to their resource directory, in the order the
\* file system lists them (os.walk order, not sorted).
WalkOrder == <<"values/foo.xml", "drawable/bar.png", "empty/.keep">>
Names == {WalkOrder[i] : i \in 1..Len(WalkOrder)}
\* Contents of a resource file; "bad" is a file the ID compiler rejects.
ResContents == {"v1", "v2", "bad"}

ResFiles == [dir : Dirs, rel : Names]
fooA == [dir |-> dirA, rel |-> "values/foo.xml"]
fooB == [dir |-> dirB, rel |-> "values/foo.xml"]
barA == [dir |-> dirA, rel |-> "drawable/bar.png"]

\* os.path.join(resource_dir, rel), for every file of the model.
DirPath(d) == d.parent \o "/" \o d.base
PathTable == [f \in ResFiles |-> DirPath(f.dir) \o "/" \o f.rel]
PathOf(f) == PathTable[f]
\* os.path.basename(resource_dir)
Basename(d) == d.base
\* os.path.relpath(resource_file, resource_dir)
Relpath(f, d) == f.rel

(***************************************************************************)
(* Helpers on sequences.                                                   *)
(***************************************************************************)
Range(s) == {s[i] : i \in 1..Len(s)}

RECURSIVE Filter(_, _)
Filter(s, keep) ==
  IF s = <<>> THEN <<>>
  ELSE (IF Head(s) \in keep THEN <<Head(s)>> ELSE <<>>) \o Filter(Tail(s), keep)

\* Lexicographic rank of a relative name (string order of Python's sorted).
Rank(n) ==
  CASE n = "drawable/bar.png" -> 1
    [] n = "empty/.keep" -> 2
    [] n = "values/foo.xml" -> 3

RECURSIVE Insert(_, _)
Insert(n, s) ==
  IF s = <<>> THEN <<n>>
  ELSE IF Rank(n) <= Rank(Head(s)) THEN <<n>> \o s
  ELSE <<Head(s)>> \o Insert(n, Tail(s))

RECURSIVE sorted(_)
sorted(s) == IF s = <<>> THEN <<>> ELSE Insert(Head(s), sorted(Tail(s)))

\* str() of a flag, so that a list of input strings has one type.
Str(b) == IF b THEN "True" ELSE "False"

(***************************************************************************)
(* Walking resource directories.                                           *)
(***************************************************************************)
\* resource_utils.AAPT_IGNORE_PATTERN, a ':' delimited list of globs.
AAPT_IGNORE_PATTERN == <<"*OWNERS", "*.py", "*.pyc", "*~", ".*", "*.d.stamp">>

\* The path segments of each relative name.
Segments(n) ==
  CASE n = "values/foo.xml" -> {"values", "foo.xml"}
    [] n = "drawable/bar.png" -> {"drawable", "bar.png"}
    [] n = "empty/.keep" -> {"empty", ".keep"}

\* fnmatch of one path segment against one glob, for the segments above.
GlobMatch(seg, glob) ==
  \/ glob = ".*" /\ seg = ".keep"
  \/ glob = "*drawable*" /\ seg = "drawable"

MatchesGlob(n, ignore_pattern) ==
  \E seg \in Segments(n) : \E i \in 1..Len(ignore_pattern) :
     GlobMatch(seg, ignore_pattern[i])

\* build_utils.FindInDirectory(resource_dir, '*'): every file under the
\* directory, nothing filtered.
FindInDirectory(disk, d) ==
  LET present == {n \in Names : disk[[dir |-> d, rel |-> n]] # Absent}
      names == Filter(WalkOrder, present)
  IN [i \in 1..Len(names) |-> [dir |-> d, rel |-> names[i]]]

\* resource_utils.IterResourceFilesInDirectories: the files under the
\* directories, in directory order, without those the ignore globs match.
RECURSIVE IterResourceFilesInDirectories(_, _, _)
IterResourceFilesInDirectories(disk, dirs, ignore_pattern) ==
  IF dirs = <<>> THEN <<>>
  ELSE LET found == FindInDirectory(disk, Head(dirs))
           kept == {f \in Range(found) : ~MatchesGlob(f.rel, ignore_pattern)}
       IN Filter(found, kept)
          \o IterResourceFilesInDirectories(disk, Tail(dirs), ignore_pattern)

\* resource_utils.ExtractResourceDirsFromFileList: the directories of the
\* declared files, each once, in the order of first appearance.
RECURSIVE ExtractResourceDirsFromFileList(_)
ExtractResourceDirsFromFileList(sources) ==
  IF sources = <<>> THEN <<>>
  ELSE LET n == Len(sources)
           front == ExtractResourceDirsFromFileList(SubSeq(sources, 1, n - 1))
           d == sources[n].dir
       IN IF d \in Range(front) THEN front ELSE Append(front, d)

(***************************************************************************)
(* Options (the result of _ParseArgs) and the other input files.           *)
(***************************************************************************)
\* Contents of AndroidManifest.xml: with a package attribute, without one,
\* and not well-formed XML.
ManifestContents == {"pkg", "nopkg", "bad"}
FileContents == {"v1", "v2"}

ExtPaths ==
  {"aapt", "AndroidManifest.xml", "android.jar", "dep.zip",
   "dep1/R.txt", "dep2/R.txt", "in/R.txt"}

ContentsOf(p) == IF p = "AndroidManifest.xml" THEN ManifestContents ELSE FileContents

CommonOptions ==
  [aapt_path |-> "aapt",
   include_resources |-> <<"android.jar">>,
   dependencies_res_zips |-> <<"dep.zip">>,
   extra_res_packages |-> <<"org.dep1", "org.dep2">>,
   extra_r_text_files |-> <<"dep1/R.txt", "dep2/R.txt">>,
   custom_package |-> None,
   android_manifest |-> None,
   r_text_in |-> None,
   resource_zip_out |-> "out/res.zip",
   r_text_out |-> "out/R.txt",
   srcjar_out |-> "out/R.srcjar",
   shared_resources |-> FALSE,
   strip_drawables |-> FALSE,
   sources |-> <<>>]

\* The command lines that the behaviours start from.
OptionProfiles ==
  { [CommonOptions EXCEPT !.sources = <<fooA, fooB>>,
                          !.custom_package = "org.app"],
    [CommonOptions EXCEPT !.sources = <<fooB, fooA>>,
                          !.android_manifest = "AndroidManifest.xml",
                          !.extra_res_packages = <<>>,
                          !.extra_r_text_files = <<>>],
    [CommonOptions EXCEPT !.sources = <<fooA>>,
                          !.dependencies_res_zips = <<>>,
                          !.resource_zip_out = None],
    [CommonOptions EXCEPT !.sources = <<fooA, barA>>,
                          !.custom_package = "org.app",
                          !.r_text_in = "in/R.txt",
                          !.resource_zip_out = None],
    [CommonOptions EXCEPT !.custom_package = "org.app",
                          !.dependencies_res_zips = <<>>,
                          !.extra_res_packages = <<>>,
                          !.extra_r_text_files = <<>>] }

\* options.resource_dirs, set by _ParseArgs from the declared sources.
resource_dirs(o) == ExtractResourceDirsFromFileList(o.sources)

\* A path option that is given (truthy).
Given(x) == x # None

(***************************************************************************)
(* _CheckAllFilesListed                                                    *)
(***************************************************************************)
\* Variant: the loop stops at the first file that is not declared.
MissingFilesFirst(resource_files, dirs, disk) ==
  LET declared == {PathOf(resource_files[i]) : i \in 1..Len(resource_files)}
      walked == IterResourceFilesInDirectories(disk, dirs, AAPT_IGNORE_PATTERN)
      undeclared == {f \in Range(walked) : PathOf(f) \notin declared}
      kept == Filter(walked, undeclared)
  IN IF kept = <<>> THEN <<>> ELSE <<PathOf(kept[1])>>

\* The paths found under the resource directories that the declared list
\* lacks, in walk order: missing_files.
MissingFiles(resource_files, dirs, disk) ==
  LET declared == {PathOf(resource_files[i]) : i \in 1..Len(resource_files)}
      walked == IterResourceFilesInDirectories(disk, dirs, AAPT_IGNORE_PATTERN)
      undeclared == {f \in Range(walked) : PathOf(f) \notin declared}
      kept == Filter(walked, undeclared)
  IN [i \in 1..Len(kept) |-> PathOf(kept[i])]

\* What _CheckAllFilesListed does: the lines written to stderr and whether
\* sys.exit(1) is called.
CheckAllFilesListed(resource_files, dirs, disk) ==
  LET missing_files == MissingFiles(resource_files, dirs, disk)
  IN [exit |-> IF missing_files # <<>> THEN 1 ELSE 0,
      stderr |-> missing_files]

(***************************************************************************)
(* _ZipResources                                                           *)
(***************************************************************************)
MULTIPLE_RES_MAGIC_STRING == "magic"

\* Variant: the archive path without the ordinal of the directory.
ArchivePathNoOrdinal(index, resource_dir, archive_path) ==
  Basename(resource_dir) \o "/" \o archive_path

\* '{}_{}/{}'.format(index, resource_dir_name, archive_path)
ArchivePath(index, resource_dir, archive_path) ==
  ToString(index) \o "_" \o Basename(resource_dir) \o "/" \o archive_path

\* path.startswith('/tmp')
StartsWithTmp(f) == f.dir.parent = "/tmp"

\* dict[key] = value
Put(m, key, value) == (key :> value) @@ m

\* The inner loop of lines 114-122 over the files of one directory.
RECURSIVE AddFiles(_, _, _, _)
AddFiles(files, index, resource_dir, acc) ==
  IF files = <<>> THEN acc
  ELSE LET f == Head(files)
           key == ArchivePath(index, resource_dir, f.rel)
           acc1 == [files_to_zip |-> Put(acc.files_to_zip, key, f),
                    files_to_zip_without_generated |->
                      IF ~StartsWithTmp(f)
                      THEN Put(acc.files_to_zip_without_generated, key, f)
                      ELSE acc.files_to_zip_without_generated]
       IN AddFiles(Tail(files), index, resource_dir, acc1)

\* Variant: every directory is given the ordinal of the first one.
RECURSIVE CollectFilesSameIndex(_, _, _, _, _)
CollectFilesSameIndex(disk, dirs, index, ignore_pattern, acc) ==
  IF index >= Len(dirs) THEN acc
  ELSE LET resource_dir == dirs[index + 1]
           files == IterResourceFilesInDirectories(disk, <<resource_dir>>,
                                                   ignore_pattern)
       IN CollectFilesSameIndex(disk, dirs, index + 1, ignore_pattern,
                                AddFiles(files, 0, resource_dir, acc))

\* The outer loop of lines 113-122: enumerate(resource_dirs) from index.
RECURSIVE CollectFiles(_, _, _, _, _)
CollectFiles(disk, dirs, index, ignore_pattern, acc) ==
  IF index >= Len(dirs) THEN acc
  ELSE LET resource_dir == dirs[index + 1]
           files == IterResourceFilesInDirectories(disk, <<resource_dir>>,
                                                   ignore_pattern)
       IN CollectFiles(disk, dirs, index + 1, ignore_pattern,
                       AddFiles(files, index, resource_dir, acc))

\* The archive and the .info file that _ZipResources writes.
ZipResources(dirs, ignore_pattern, disk) ==
  LET c == CollectFiles(disk, dirs, 0, ignore_pattern,
                        [files_to_zip |-> <<>>,
                         files_to_zip_without_generated |-> <<>>])
  IN [zip |-> [kind |-> "zip",
               comment |-> MULTIPLE_RES_MAGIC_STRING,
               entries |-> [k \in DOMAIN c.files_to_zip |->
                              disk[c.files_to_zip[k]]],
               sources |-> [k \in DOMAIN c.files_to_zip |->
                              PathOf(c.files_to_zip[k])]],
      info |-> [kind |-> "info",
                entries |-> [k \in DOMAIN c.files_to_zip_without_generated |->
                               PathOf(c.files_to_zip_without_generated[k])]]]

\* The ignore globs of _GenerateResourcesZip and _GenerateRTxt.
IgnorePattern(strip_drawables) ==
  IF strip_drawables THEN AAPT_IGNORE_PATTERN \o <<"*drawable*">>
  ELSE AAPT_IGNORE_PATTERN

GenerateResourcesZip(input_resource_dirs, strip_drawables, disk) ==
  ZipResources(input_resource_dirs, IgnorePattern(strip_drawables), disk)

(***************************************************************************)
(* _GenerateRTxt: the external ID compiler (aapt), a black box whose       *)
(* result is a function of its command line and of the files it reads.     *)
(***************************************************************************)
EmptyFile == [kind |-> "empty"]
ExtFile(ext, p) == [kind |-> "file", data |-> ext[p]]

\* resource_utils.ExtractDeps: one ordinally named subdirectory per archive.
ExtractDeps(dependencies_res_zips, ext) ==
  [i \in 1..Len(dependencies_res_zips) |->
     [subdir |-> ToString(i - 1), archive |-> ext[dependencies_res_zips[i]]]]

\* package_command of _GenerateRTxt.
PackageCommand(o, dep_subdirs) ==
  [aapt |-> o.aapt_path,
   I |-> o.include_resources,
   ignore_assets |-> IgnorePattern(o.strip_drawables),
   S_deps |-> dep_subdirs,
   S_own |-> resource_dirs(o)]

\* build_utils.CheckOutput(package_command): aapt rejects a malformed
\* resource, writes no R.txt when there is no resource at all, and else
\* writes the identifier table of what it was given.
CheckOutput(cmd, disk, ext) ==
  LET own == IterResourceFilesInDirectories(disk, cmd.S_own, cmd.ignore_assets)
  IN IF \E i \in 1..Len(own) : disk[own[i]] = "bad"
     THEN [returncode |-> 1, r_txt |-> NoFile]
     ELSE IF own = <<>> /\ cmd.S_deps = <<>>
     THEN [returncode |-> 0, r_txt |-> NoFile]
     ELSE [returncode |-> 0,
           r_txt |-> [kind |-> "table",
                      tool |-> ext[cmd.aapt],
                      include |-> [i \in 1..Len(cmd.I) |-> ext[cmd.I[i]]],
                      deps |-> cmd.S_deps,
                      res |-> [i \in 1..Len(own) |->
                                 <<PathOf(own[i]), disk[own[i]]>>]]]

GenerateRTxt(o, dep_subdirs, disk, ext) ==
  CheckOutput(PackageCommand(o, dep_subdirs), disk, ext)

\* Variant: no placeholder is created.
NoTouch(r_txt) == r_txt

\* Lines 218-220: 'aapt' doesn't generate any R.txt file if res/ was empty.
TouchIfMissing(r_txt) == IF r_txt = NoFile THEN EmptyFile ELSE r_txt

(***************************************************************************)
(* Source generation.                                                      *)
(***************************************************************************)
\* manifest_utils.GetPackage(ParseManifest(path)): the package attribute.
GetPackage(manifest) == IF manifest = "pkg" THEN "org.manifest" ELSE None

\* rjava_build_options of lines 238-242.
RJavaBuildOptions(o) ==
  [export_all_resources |-> TRUE,
   export_all_styleables |-> TRUE,
   on_resources_loaded |-> o.shared_resources]

\* resource_utils.CreateRJavaFiles: one R.java for the package and one for
\* each extra package, whose symbols come from its own R.txt.
CreateRJavaFiles(package, r_txt, extra_packages, extra_r_txts, opts, ext) ==
  {[package |-> package, ids |-> r_txt, symbols |-> r_txt, options |-> opts]}
  \cup {[package |-> extra_packages[i], ids |-> r_txt,
         symbols |-> ExtFile(ext, extra_r_txts[i]),
         options |-> opts] : i \in 1..Len(extra_packages)}

(***************************************************************************)
(* _OnStaleMd5, as the sequence of its steps.  A build record carries the  *)
(* outputs on disk, the steps done, and the exception that ended it.       *)
(***************************************************************************)
NoOutputs ==
  [resource_zip |-> NoFile, info |-> NoFile, r_text |-> NoFile,
   srcjar |-> NoFile]

NewBuild(outs) ==
  [status |-> "ok", returncode |-> 0, err |-> None, outs |-> outs,
   steps |-> <<>>, stderr |-> <<>>, r_txt |-> NoFile]

\* sys.exit(1) or an uncaught exception: the process exits with status 1.
Fail(b, step, err) ==
  [b EXCEPT !.status = "fail", !.returncode = 1, !.err = err,
            !.steps = Append(@, step)]

Done(b, step) == [b EXCEPT !.steps = Append(@, step)]

\* Lines 205-206.
CheckStage(o, disk, b) ==
  IF b.status = "fail" \/ o.sources = <<>> THEN b
  ELSE LET r == CheckAllFilesListed(o.sources, resource_dirs(o), disk)
       IN IF r.exit # 0
          THEN [Fail(b, "check", "undeclared") EXCEPT !.stderr = r.stderr]
          ELSE Done(b, "check")

\* Lines 207-220.
RTxtStage(o, disk, ext, b) ==
  IF b.status = "fail" THEN b
  ELSE IF Given(o.r_text_in)
  THEN [b EXCEPT !.r_txt = ExtFile(ext, o.r_text_in)]
  ELSE LET dep_subdirs == ExtractDeps(o.dependencies_res_zips, ext)
           run == GenerateRTxt(o, dep_subdirs, disk, ext)
       IN IF run.returncode # 0
          THEN Fail(b, "aapt", "aapt")
          ELSE [Done(b, "aapt") EXCEPT !.r_txt = TouchIfMissing(run.r_txt)]

\* Lines 222-223; shutil.copyfile raises when the source does not exist.
RTextOutStage(o, b) ==
  IF b.status = "fail" \/ ~Given(o.r_text_out) THEN b
  ELSE IF b.r_txt = NoFile
  THEN Fail(b, "copy_r_txt", "no R.txt")
  ELSE [Done(b, "copy_r_txt") EXCEPT !.outs.r_text = b.r_txt]

\* Lines 226-230: the package of the target; ParseManifest raises on a
\* manifest that is not well-formed.
TargetPackage(o, ext) ==
  IF ~Given(o.custom_package) /\ Given(o.android_manifest)
  THEN IF ext[o.android_manifest] = "bad"
       THEN [ok |-> FALSE, package |-> None]
       ELSE [ok |-> TRUE, package |-> GetPackage(ext[o.android_manifest])]
  ELSE [ok |-> TRUE, package |-> o.custom_package]

\* Lines 234-248: the files left in build.srcjar_dir.
SrcjarDir(o, package, r_txt, ext) ==
  IF Given(package)
  THEN CreateRJavaFiles(package, r_txt, o.extra_res_packages,
                        o.extra_r_text_files, RJavaBuildOptions(o), ext)
  ELSE {}

\* Lines 225-250.
SrcjarStage(o, ext, b) ==
  IF b.status = "fail" \/ ~Given(o.srcjar_out) THEN b
  ELSE LET p == TargetPackage(o, ext)
       IN IF ~p.ok THEN Fail(b, "parse_manifest", "manifest")
          ELSE IF Given(p.package) /\ b.r_txt = NoFile
          THEN Fail(b, "create_rjava", "no R.txt")
          ELSE [Done(b, "zip_srcjar") EXCEPT
                  !.outs.srcjar = [kind |-> "srcjar",
                                   files |-> SrcjarDir(o, p.package, b.r_txt, ext)]]

\* Lines 252-254.
ZipStage(o, disk, b) ==
  IF b.status = "fail" \/ ~Given(o.resource_zip_out) THEN b
  ELSE LET z == GenerateResourcesZip(resource_dirs(o), o.strip_drawables, disk)
       IN [Done(b, "zip_resources") EXCEPT !.outs.resource_zip = z.zip,
                                           !.outs.info = z.info]

\* Variant: the declared sources are checked after the outputs are written.
OnStaleMd5CheckLast(o, disk, ext, outs) ==
  CheckStage(o, disk,
    ZipStage(o, disk,
      SrcjarStage(o, ext,
        RTextOutStage(o,
          RTxtStage(o, disk, ext, NewBuild(outs))))))

\* Lines 203-254.
OnStaleMd5(o, disk, ext, outs) ==
  ZipStage(o, disk,
    SrcjarStage(o, ext,
      RTextOutStage(o,
        RTxtStage(o, disk, ext,
          CheckStage(o, disk, NewBuild(outs))))))

(***************************************************************************)
(* main: the inputs of the staleness gate.                                 *)
(***************************************************************************)
\* [x for x in seq if x]
Truthy(seq) == Filter(seq, {x \in Range(seq) : Given(x)})

\* Variant: the outputs that were not requested are not dropped.
OutputPathsUnfiltered(o) ==
  <<o.resource_zip_out, o.r_text_out, o.srcjar_out>>

\* Lines 263-268.
OutputPaths(o) ==
  Truthy(<<o.resource_zip_out, o.r_text_out, o.srcjar_out>>)

\* Every file FindInDirectory yields, directory by directory (lines 291-292).
RECURSIVE FindInDirectories(_, _)
FindInDirectories(disk, dirs) ==
  IF dirs = <<>> THEN <<>>
  ELSE FindInDirectory(disk, Head(dirs)) \o FindInDirectories(disk, Tail(dirs))

\* resource_file.endswith(os.path.join('empty', '.keep'))
EndsWithEmptyKeep(f) == f.rel = "empty/.keep"

\* Variant: only the first resource directory is walked.
DepfileDepsFirstDir(o, disk) ==
  LET dirs == resource_dirs(o)
      found == IF dirs = <<>> THEN <<>> ELSE FindInDirectory(disk, dirs[1])
      listed == Filter(found, {f \in Range(found) : ~EndsWithEmptyKeep(f)})
  IN [i \in 1..Len(listed) |-> PathOf(listed[i])]

\* Lines 289-298: depfile_deps.
DepfileDeps(o, disk) ==
  LET found == FindInDirectories(disk, resource_dirs(o))
      listed == Filter(found, {f \in Range(found) : ~EndsWithEmptyKeep(f)})
  IN [i \in 1..Len(listed) |-> PathOf(listed[i])]

\* Lines 290-299: resource_names.
ResourceNames(o, disk) ==
  LET found == FindInDirectories(disk, resource_dirs(o))
  IN [i \in 1..Len(found) |-> Relpath(found[i], found[i].dir)]

\* Variant: the resource names are not added to the strings.
InputStringsNoNames(o, disk) ==
  o.extra_res_packages
  \o <<o.custom_package, Str(o.shared_resources), Str(o.strip_drawables)>>

\* Lines 272-276 and 303.
InputStrings(o, disk) ==
  o.extra_res_packages
  \o <<o.custom_package, Str(o.shared_resources), Str(o.strip_drawables)>>
  \o sorted(ResourceNames(o, disk))

\* Lines 278-285 and 297.
InputPaths(o, disk) ==
  Truthy(<<o.aapt_path, o.android_manifest>> \o o.include_resources)
  \o o.dependencies_res_zips
  \o o.extra_r_text_files
  \o DepfileDeps(o, disk)

(***************************************************************************)
(* md5_check.CallAndWriteDepfileIfStale, the staleness gate.               *)
(***************************************************************************)
\* The resource file at a path, and the content of the file at an input path.
FileAt == [p \in {PathOf(f) : f \in ResFiles} |->
             CHOOSE f \in ResFiles : PathOf(f) = p]
ReadPath(disk, ext, p) ==
  IF p \in ExtPaths THEN ext[p]
  ELSE disk[FileAt[p]]

\* The output file at an output path.
OutFile(outs, p) ==
  CASE p = "out/res.zip" -> outs.resource_zip
    [] p = "out/R.txt" -> outs.r_text
    [] p = "out/R.srcjar" -> outs.srcjar
    [] OTHER -> NoFile

NoStamp == [set |-> FALSE, paths |-> <<>>, strings |-> <<>>, outputs |-> <<>>]

\* The fingerprint of the inputs: every input path with the content of its
\* file, every input string, and the output set it is recorded for.
Fingerprint(input_paths, input_strings, output_paths, disk, ext) ==
  [set |-> TRUE,
   paths |-> [i \in 1..Len(input_paths) |->
                <<input_paths[i], ReadPath(disk, ext, input_paths[i])>>],
   strings |-> input_strings,
   outputs |-> output_paths]

\* Changed, missing, or no prior record.
IsStale(old, new, output_paths, outs) ==
  \/ ~old.set
  \/ old # new
  \/ \E i \in 1..Len(output_paths) : OutFile(outs, output_paths[i]) = NoFile

\* What one call of the gate leaves behind: the outputs, the persisted
\* fingerprint, the depfile, and the build record of the action (a build
\* with no step when the action was skipped).  An action that fails ends
\* the process: nothing is recorded and no depfile is written.
\* g holds the arguments of the call: input_paths, input_strings,
\* output_paths and depfile_deps.
CallAndWriteDepfileIfStale(o, disk, ext, outs, old_stamp, old_depfile, g) ==
  LET new == Fingerprint(g.input_paths, g.input_strings, g.output_paths,
                         disk, ext)
      stale == IsStale(old_stamp, new, g.output_paths, outs)
      b == IF stale THEN OnStaleMd5(o, disk, ext, outs) ELSE NewBuild(outs)
  IN [ran |-> stale,
      build |-> b,
      outs |-> b.outs,
      stamp |-> IF stale /\ b.status = "ok" THEN new ELSE old_stamp,
      depfile_written |-> b.status = "ok",
      depfile |-> IF b.status = "ok"
                  THEN [written |-> TRUE, deps |-> g.depfile_deps]
                  ELSE old_depfile]

(***************************************************************************)
(* State.                                                                  *)
(***************************************************************************)
VARIABLES
  options,   \* the command line of the target
  files,     \* content of every file under the resource directories
  inputs,    \* content of the other input files
  outputs,   \* the output files
  stamp,     \* the fingerprint persisted by the gate
  depfile,   \* the build-dependency record
  last,      \* what the most recent invocation of main saw and did
  built,     \* the inputs read by the most recent successful action
  change,    \* what changed since the most recent invocation
  edits      \* number of changes made by the environment

vars == <<options, files, inputs, outputs, stamp, depfile, last, built,
          change, edits>>

\* The inputs that the action reads and that shape its outputs.
ReadInputs(o, disk, ext) ==
  LET res == IterResourceFilesInDirectories(disk, resource_dirs(o),
                                            AAPT_IGNORE_PATTERN)
  IN [aapt |-> ext[o.aapt_path],
      manifest |-> IF Given(o.android_manifest) /\ ~Given(o.custom_package)
                   THEN ext[o.android_manifest] ELSE None,
      include |-> [i \in 1..Len(o.include_resources) |->
                     ext[o.include_resources[i]]],
      deps |-> [i \in 1..Len(o.dependencies_res_zips) |->
                  ext[o.dependencies_res_zips[i]]],
      extra_tables |-> [i \in 1..Len(o.extra_r_text_files) |->
                          ext[o.extra_r_text_files[i]]],
      extra_packages |-> o.extra_res_packages,
      custom_package |-> o.custom_package,
      shared_resources |-> o.shared_resources,
      strip_drawables |-> o.strip_drawables,
      resources |-> [i \in 1..Len(res) |-> <<PathOf(res[i]), disk[res[i]]>>],
      r_text_in |-> IF Given(o.r_text_in) THEN ext[o.r_text_in] ELSE None]

NoDisk == [f \in ResFiles |-> Absent]
InitInputs ==
  [p \in ExtPaths |-> IF p = "AndroidManifest.xml" THEN "pkg" ELSE "v1"]
NoDepfile == [written |-> FALSE, deps |-> <<>>]

NoLast ==
  [status |-> "none", ran |-> FALSE, build |-> NewBuild(NoOutputs),
   options |-> CommonOptions, disk |-> NoDisk, ext |-> InitInputs,
   input_strings |-> <<>>, prev_input_strings |-> <<>>,
   depfile_written |-> FALSE, depfile_deps |-> <<>>,
   outs_before |-> NoOutputs, stamp_before |-> NoStamp,
   prev_status |-> "none", change_before |-> "other"]

Init ==
  /\ options \in OptionProfiles
  /\ files \in {[f \in ResFiles |->
                   IF f \in Range(options.sources) THEN "v1" ELSE Absent],
                [f \in ResFiles |->
                   IF f.dir \in Range(resource_dirs(options))
                   THEN "v1" ELSE Absent],
                NoDisk}
  /\ inputs = InitInputs
  /\ outputs = NoOutputs
  /\ stamp = NoStamp
  /\ depfile = NoDepfile
  /\ last = NoLast
  /\ built = ReadInputs(CommonOptions, NoDisk, InitInputs)
  /\ change = "other"
  /\ edits = 0

(***************************************************************************)
(* One invocation of main.                                                 *)
(***************************************************************************)
Main ==
  LET input_paths == InputPaths(options, files)
      input_strings == InputStrings(options, files)
      output_paths == OutputPaths(options)
      depfile_deps == DepfileDeps(options, files)
      gate == [input_paths |-> input_paths, input_strings |-> input_strings,
               output_paths |-> output_paths, depfile_deps |-> depfile_deps]
  IN \E r \in {CallAndWriteDepfileIfStale(options, files, inputs, outputs,
                                          stamp, depfile, gate)} :
     /\ outputs' = r.outs
     /\ stamp' = r.stamp
     /\ depfile' = r.depfile
     /\ built' = IF r.ran /\ r.build.status = "ok"
                 THEN ReadInputs(options, files, inputs) ELSE built
     /\ last' = [status |-> r.build.status, ran |-> r.ran, build |-> r.build,
                 options |-> options, disk |-> files, ext |-> inputs,
                 input_strings |-> input_strings,
                 prev_input_strings |-> last.input_strings,
                 depfile_written |-> r.depfile_written,
                 depfile_deps |-> depfile_deps,
                 outs_before |-> outputs, stamp_before |-> stamp,
                 prev_status |-> last.status, change_before |-> change]
     /\ change' = "none"
     /\ UNCHANGED <<options, files, inputs, edits>>

(***************************************************************************)
(* The environment: edits of the inputs between invocations.               *)
(***************************************************************************)
Edited(kind) ==
  /\ edits < MaxEdits
  /\ edits' = edits + 1
  /\ change' = IF change = "none" THEN kind ELSE "other"
  /\ UNCHANGED <<stamp, depfile, last, built>>

\* A resource file is created or rewritten.
WriteResource ==
  \E f \in ResFiles : \E c \in ResContents :
    /\ f.dir \in Range(resource_dirs(options))
    /\ files[f] # c
    /\ files' = [files EXCEPT ![f] = c]
    /\ Edited("other")
    /\ UNCHANGED <<options, inputs, outputs>>

\* A resource file is removed.
DeleteResource ==
  \E f \in ResFiles :
    /\ f.dir \in Range(resource_dirs(options))
    /\ files[f] # Absent
    /\ files' = [files EXCEPT ![f] = Absent]
    /\ Edited("other")
    /\ UNCHANGED <<options, inputs, outputs>>

\* A resource file is renamed inside its directory, content unchanged.
RenameResource ==
  \E f \in ResFiles : \E n \in Names :
    LET g == [dir |-> f.dir, rel |-> n]
    IN /\ f.dir \in Range(resource_dirs(options))
       /\ files[f] # Absent
       /\ files[g] = Absent
       /\ files' = [files EXCEPT ![f] = Absent, ![g] = files[f]]
       /\ Edited("rename")
       /\ UNCHANGED <<options, inputs, outputs>>

\* The paths that the command line names.
NamedPaths(o) ==
  Range(Truthy(<<o.aapt_path, o.android_manifest, o.r_text_in>>))
  \cup Range(o.include_resources) \cup Range(o.dependencies_res_zips)
  \cup Range(o.extra_r_text_files)

\* One of the other input files is rewritten.
EditInput ==
  \E p \in ExtPaths : \E c \in ContentsOf(p) :
    /\ p \in NamedPaths(options)
    /\ inputs[p] # c
    /\ inputs' = [inputs EXCEPT ![p] = c]
    /\ Edited("other")
    /\ UNCHANGED <<options, files, outputs>>

\* The build description changes a flag of the target.
ChangeOption ==
  /\ \/ options' = [options EXCEPT !.strip_drawables = ~@]
     \/ options' = [options EXCEPT !.shared_resources = ~@]
  /\ Edited("other")
  /\ UNCHANGED <<files, inputs, outputs>>

\* An output file is removed.
DeleteOutput ==
  \E k \in {"resource_zip", "r_text", "srcjar"} :
    /\ outputs[k] # NoFile
    /\ outputs' = [outputs EXCEPT ![k] = NoFile]
    /\ Edited("other")
    /\ UNCHANGED <<options, files, inputs>>

Next ==
  \/ Main
  \/ WriteResource
  \/ DeleteResource
  \/ RenameResource
  \/ EditInput
  \/ ChangeOption
  \/ DeleteOutput

Spec == Init /\ [][Next]_vars

(***************************************************************************)
(* Properties.  They are stated over `last', the record of the most recent *)
(* invocation: the command line and files it saw, and the build it did.    *)
(***************************************************************************)
Invoked == last.status # "none"

\* The files that exist under the resource directories of the target.
Discovered(o, disk) ==
  {f \in ResFiles : f.dir \in Range(resource_dirs(o)) /\ disk[f] # Absent}

\* The paths the walker yields that the declared sources do not name.
Undeclared(o, disk) ==
  {PathOf(f) : f \in {g \in Discovered(o, disk) :
                        /\ ~MatchesGlob(g.rel, AAPT_IGNORE_PATTERN)
                        /\ g \notin Range(o.sources)}}

\* The steps of a build that write a requested output.
WritingSteps == {"copy_r_txt", "zip_srcjar", "zip_resources"}
Written(b) == Range(b.steps) \cap WritingSteps
Requested(o) ==
  {s \in WritingSteps :
     \/ s = "copy_r_txt" /\ Given(o.r_text_out)
     \/ s = "zip_srcjar" /\ Given(o.srcjar_out)
     \/ s = "zip_resources" /\ Given(o.resource_zip_out)}

\* The most recent invocation wrote the resource archive.
ZipWritten ==
  /\ last.status = "ok"
  /\ last.ran
  /\ Given(last.options.resource_zip_out)

\* The files of directory d that go into the archive.
Zipped(o, disk, d) ==
  {n \in Names : /\ disk[[dir |-> d, rel |-> n]] # Absent
                 /\ ~MatchesGlob(n, IgnorePattern(o.strip_drawables))}

\* '{ordinal}_{root_basename}/{relative path}'
EntryPath(ordinal, d, n) == ToString(ordinal) \o "_" \o d.base \o "/" \o n

----------------------------------------------------------------------------
\* C1: an invocation that follows a successful one, with the same options
\* and no input or output changed in between, skips the action: no step of
\* _OnStaleMd5 is done and every output is left as it was.
SkipsWhenUnchanged ==
  (Invoked /\ last.prev_status = "ok" /\ last.change_before = "none")
  => /\ last.status = "ok"
     /\ ~last.ran
     /\ last.build.steps = <<>>
     /\ last.build.outs = last.outs_before

SkippedSecondRun ==
  /\ Invoked
  /\ last.prev_status = "ok"
  /\ last.change_before = "none"
  /\ ~last.ran
  /\ \E k \in DOMAIN last.outs_before : last.outs_before[k] # NoFile

----------------------------------------------------------------------------
----------------------------------------------------------------------------
\* C3: when the srcjar is requested, no package of the target can be
\* determined and extra packages are given, the srcjar holds one source
\* file per extra package and none for the target.
DependencySourcesWithoutPackage ==
  LET o == last.options
      p == TargetPackage(o, last.ext)
  IN (/\ last.status = "ok"
      /\ last.ran
      /\ Given(o.srcjar_out)
      /\ p.ok
      /\ ~Given(p.package)
      /\ o.extra_res_packages # <<>>)
     => {f.package : f \in last.build.outs.srcjar.files}
          = Range(o.extra_res_packages)

----------------------------------------------------------------------------
\* C4: after a successful invocation, renaming one resource file inside its
\* directory, nothing else changed, changes the input strings given to the
\* gate, and the next invocation runs the action.
RenameInvalidates ==
  (Invoked /\ last.prev_status = "ok" /\ last.change_before = "rename")
  => /\ last.ran
     /\ last.input_strings # last.prev_input_strings

RanAfterRename ==
  /\ Invoked
  /\ last.prev_status = "ok"
  /\ last.change_before = "rename"
  /\ last.ran
  /\ last.status = "ok"

----------------------------------------------------------------------------
\* C5: when the action runs and the walker finds files that the declared
\* sources lack, the invocation fails with exit status 1 and the report
\* names exactly those files, each once.
UndeclaredFilesReported ==
  LET undeclared == Undeclared(last.options, last.disk)
  IN (Invoked /\ last.ran /\ undeclared # {})
     => /\ last.status = "fail"
        /\ last.build.returncode = 1
        /\ last.build.err = "undeclared"
        /\ Range(last.build.stderr) = undeclared
        /\ Len(last.build.stderr) = Cardinality(undeclared)

SeveralUndeclaredReported ==
  /\ Invoked
  /\ last.ran
  /\ Cardinality(Undeclared(last.options, last.disk)) >= 2
  /\ last.status = "fail"

----------------------------------------------------------------------------
----------------------------------------------------------------------------
\* C7: the entries of the archive are exactly the paths
\* '{ordinal}_{root_basename}/{relative path}' of the files that are
\* zipped, one entry per file, each with the content of its own file, also
\* when two directories share a basename and a relative name.
ArchivePathsUnique ==
  ZipWritten =>
    LET o == last.options
        dirs == resource_dirs(o)
        zip == last.build.outs.resource_zip
        zipped == {e \in (1..Len(dirs)) \X Names :
                     e[2] \in Zipped(o, last.disk, dirs[e[1]])}
        key(e) == EntryPath(e[1] - 1, dirs[e[1]], e[2])
    IN /\ DOMAIN zip.entries = {key(e) : e \in zipped}
       /\ Cardinality(DOMAIN zip.entries) = Cardinality(zipped)
       /\ \A e \in zipped :
            LET f == [dir |-> dirs[e[1]], rel |-> e[2]]
            IN /\ zip.sources[key(e)] = PathOf(f)
               /\ zip.entries[key(e)] = last.disk[f]

TwoEntriesForOneName ==
  /\ ZipWritten
  /\ resource_dirs(last.options) = <<dirA, dirB>>
  /\ last.disk[fooA] = "v1"
  /\ last.disk[fooB] = "v2"
  /\ Cardinality(DOMAIN last.build.outs.resource_zip.entries) >= 2

----------------------------------------------------------------------------
\* The result of the ID compiler in the most recent invocation.
AaptRun ==
  GenerateRTxt(last.options,
               ExtractDeps(last.options.dependencies_res_zips, last.ext),
               last.disk, last.ext)

\* The ID compiler ran, exited with 0 and wrote no table.
NoTableProduced ==
  /\ Invoked
  /\ last.ran
  /\ "aapt" \in Range(last.build.steps)
  /\ AaptRun.returncode = 0
  /\ AaptRun.r_txt = NoFile

\* C8: when the ID compiler exits with 0 and writes no table, an empty
\* table is put in its place before a later step reads it: no step fails
\* on a missing table, the R.txt copy and the generated sources are made
\* from the empty table, and the archive is a valid one with no entry.
PlaceholderTable ==
  NoTableProduced =>
    LET o == last.options
        b == last.build
    IN /\ b.err # "no R.txt"
       /\ b.r_txt = EmptyFile
       /\ Given(o.r_text_out) => b.outs.r_text = EmptyFile
       /\ (Given(o.srcjar_out) /\ b.status = "ok")
            => \A f \in b.outs.srcjar.files : f.ids = EmptyFile
       /\ (Given(o.resource_zip_out) /\ b.status = "ok")
            => /\ b.outs.resource_zip.kind = "zip"
               /\ b.outs.resource_zip.comment = MULTIPLE_RES_MAGIC_STRING
               /\ DOMAIN b.outs.resource_zip.entries = {}

EmptyResourceSetBuilt ==
  /\ NoTableProduced
  /\ last.status = "ok"
  /\ last.build.outs.r_text = EmptyFile
  /\ last.build.outs.resource_zip # NoFile

----------------------------------------------------------------------------
\* C9 as stated: a failed invocation exits with a non-zero status, leaves
\* the persisted fingerprint as it was, and has written none of the
\* requested outputs (or all of them).
NoPartialOutputs ==
  last.status = "fail"
  => /\ last.build.returncode # 0
     /\ stamp = last.stamp_before
     /\ \/ Written(last.build) = {}
        \/ Written(last.build) = Requested(last.options)

\* C9 amended: a failed invocation exits with a non-zero status and leaves
\* the persisted fingerprint as it was, so that the next invocation with
\* the same inputs runs the action again; a failure of the completeness
\* check or of the ID compiler leaves every output as it was, a failure of
\* a later step leaves the outputs of the steps before it written.
FailureRecordsNothing ==
  /\ last.status = "fail"
     => /\ last.ran
        /\ last.build.returncode # 0
        /\ stamp = last.stamp_before
        /\ ~last.depfile_written
        /\ last.build.err \in {"undeclared", "aapt"}
             => /\ Written(last.build) = {}
                /\ last.build.outs = last.outs_before
  /\ (Invoked /\ last.prev_status = "fail" /\ last.change_before = "none")
     => last.ran

FailedAfterWriting ==
  /\ last.status = "fail"
  /\ last.build.err = "manifest"
  /\ Written(last.build) = {"copy_r_txt"}
  /\ last.prev_status = "fail"
  /\ last.change_before = "none"

----------------------------------------------------------------------------
\* C10: every input that the action reads and that shapes an output is in
\* the fingerprint, so an invocation that skips the action has the inputs
\* that the most recent successful action read.
FingerprintCoversInputs ==
  (last.status = "ok" /\ ~last.ran)
  => ReadInputs(last.options, last.disk, last.ext) = built

====
